---------------------------- MODULE Spec2Model ----------------------------
(***************************************************************************)
(* Model of build_multilingual_wikipedia.py: the dump-row parser           *)
(* (parse_sql_insert), the two-phase extraction (parse_wikipedia_dump),    *)
(* the column-role resolution and the N-way merge (merge_languages).       *)
(*                                                                         *)
(* A Python str is a sequence of one-character strings; a character that   *)
(* is not ASCII is written as its code point ("u65e5" is U+65E5).          *)
(***************************************************************************)
EXTENDS Integers, Sequences, FiniteSets, TLC

VARIABLES
    src,          \* parser input under test: how `line` was put together
    line,         \* parse_sql_insert: the argument
    pc,           \* parse_sql_insert: position in the function
    values_str,   \* parse_sql_insert: the text after VALUES, right-stripped
    idx,          \* parse_sql_insert: number of characters the for loop consumed
    rows, depth, current, field, in_quote, escape_next,
    result        \* parse_sql_insert: the returned list

parseVars == <<src, line, pc, values_str, idx, rows, depth, current, field,
               in_quote, escape_next, result>>

\* parse_wikipedia_dump
VARIABLES
    langlinks_file,  \* the langlinks dump: its lines, or NoFile
    page_file,       \* the page dump: its lines, or NoFile
    dpc,             \* position in the function
    lineno,          \* lines of the current dump already read
    page_to_target,  \* dict: page id -> title in the target language
    results,         \* list of matched rows <<page_id, title, target title>>
    output_file,     \* the csv written (its rows under the header), or NoFile
    returned         \* the return value: "output_file", "None", or "" before it

dumpVars == <<langlinks_file, page_file, dpc, lineno, page_to_target, results,
              output_file, returned>>

\* merge_languages: the column roles of one csv row (lines 314-325)
VARIABLES
    bridge_lang,   \* the bridge language code
    lang_code,     \* the language code of the table being read
    row,           \* the row csv.DictReader hands out: <<key, value>> pairs, in header order
    cellno,        \* items of the row already looked at
    bridge_value, lang_value,
    rpc,           \* position in the loop body
    accepted       \* whether line 325 let the row in

resolveVars == <<lang_code, row, cellno, bridge_value, lang_value, rpc, accepted>>

\* merge_languages
VARIABLES
    lang_files,     \* the language codes asked for, in order; the table of code c is
                    \* the file "<c>_<bridge>_all.csv"
    disk,           \* language code -> its table: the rows under the header, or NoFile
    mpc,            \* position in the function
    tableno,        \* entries of lang_files already read
    all_data,       \* dict: bridge value -> dict: language code -> list of titles
    lang_names,     \* list of <<lang_code, lang_name>>
    merged,         \* list of row dicts
    unique_merged,  \* list of row dicts
    merged_file     \* the csv written: <<fieldnames, rows>>, or NoFile

mergeVars == <<lang_files, disk, mpc, tableno, all_data, lang_names, merged,
               unique_merged, merged_file>>

vars == <<parseVars, dumpVars, bridge_lang, resolveVars, mergeVars>>

\* what the actions of one function leave alone
notParse == <<dumpVars, bridge_lang, resolveVars, mergeVars>>
notDump == <<parseVars, bridge_lang, resolveVars, mergeVars>>
notResolve == <<parseVars, dumpVars, mergeVars>>
notMerge == <<parseVars, dumpVars, resolveVars>>

----------------------------------------------------------------------------
(* Strings *)

Str_INSERT_INTO == <<"I","N","S","E","R","T"," ","I","N","T","O">>
Str_VALUES == <<"V","A","L","U","E","S">>

\* s.startswith(p)
StartsWith(s, p) ==
    /\ Len(s) >= Len(p)
    /\ SubSeq(s, 1, Len(p)) = p

\* s.find(sub): the lowest 0-based index where sub occurs, -1 if none
Find(s, sub) ==
    LET hits == {k \in 0..(Len(s) - Len(sub)) : SubSeq(s, k + 1, k + Len(sub)) = sub}
    IN  IF hits = {} THEN -1
        ELSE CHOOSE k \in hits : \A m \in hits : k <= m

\* s.rstrip(chars)
RStrip(s, chars) ==
    LET keep == {k \in 1..Len(s) : s[k] \notin chars}
        last == IF keep = {} THEN 0 ELSE CHOOSE k \in keep : \A m \in keep : m <= k
    IN  SubSeq(s, 1, last)

----------------------------------------------------------------------------
(* parse_sql_insert: the scan state and one operator per branch of the loop *)

ScanInit ==
    [rows |-> <<>>, depth |-> 0, current |-> <<>>, field |-> <<>>,
     in_quote |-> FALSE, escape_next |-> FALSE]

\* if escape_next: field += char; escape_next = False
OnEscaped(st, char) ==
    [st EXCEPT !.field = Append(@, char), !.escape_next = FALSE]

\* variant of OnBackslash that unescapes: the backslash itself is not stored
OnBackslashUnescape(st, char) ==
    [st EXCEPT !.escape_next = TRUE]

\* if char == '\\': escape_next = True; field += char
OnBackslash(st, char) ==
    [st EXCEPT !.escape_next = TRUE, !.field = Append(@, char)]

\* if char == "'" and not escape_next: in_quote = not in_quote
OnQuote(st, char) ==
    [st EXCEPT !.in_quote = ~@]

\* if in_quote: field += char
OnInQuote(st, char) ==
    [st EXCEPT !.field = Append(@, char)]

\* if char == '(': depth += 1; if depth == 1: current = []
OnOpen(st, char) ==
    LET d == st.depth + 1
    IN  [st EXCEPT !.depth = d,
                   !.current = IF d = 1 THEN <<>> ELSE @]

\* if char == ')': depth -= 1; if depth == 0: flush the field, append the row
OnClose(st, char) ==
    LET d   == st.depth - 1
        cur == IF st.field # <<>> THEN Append(st.current, st.field) ELSE st.current
    IN  IF d = 0
        THEN [st EXCEPT !.depth = d,
                        !.current = cur,
                        !.field = <<>>,
                        !.rows = IF cur # <<>> THEN Append(@, cur) ELSE @]
        ELSE [st EXCEPT !.depth = d]

\* if char == ',' and depth == 1: current.append(field); field = ''
OnComma(st, char) ==
    [st EXCEPT !.current = Append(@, st.field), !.field = <<>>]

\* if depth == 1: field += char
OnOther(st, char) ==
    IF st.depth = 1 THEN [st EXCEPT !.field = Append(@, char)] ELSE st

\* which branch of the loop body a character takes
Branch(st, char) ==
    IF st.escape_next THEN "escaped"
    ELSE IF char = "\\" THEN "backslash"
    ELSE IF char = "'" /\ ~st.escape_next THEN "quote"
    ELSE IF st.in_quote THEN "inquote"
    ELSE IF char = "(" THEN "open"
    ELSE IF char = ")" THEN "close"
    ELSE IF char = "," /\ st.depth = 1 THEN "comma"
    ELSE "other"

\* one iteration of the for loop
ScanChar(st, char) ==
    CASE Branch(st, char) = "escaped"   -> OnEscaped(st, char)
      [] Branch(st, char) = "backslash" -> OnBackslash(st, char)
      [] Branch(st, char) = "quote"     -> OnQuote(st, char)
      [] Branch(st, char) = "inquote"   -> OnInQuote(st, char)
      [] Branch(st, char) = "open"      -> OnOpen(st, char)
      [] Branch(st, char) = "close"     -> OnClose(st, char)
      [] Branch(st, char) = "comma"     -> OnComma(st, char)
      [] OTHER                          -> OnOther(st, char)

\* line[start:].rstrip(';\n') with start = line.find('VALUES') + 6
ValuesStr(ln) ==
    RStrip(SubSeq(ln, Find(ln, Str_VALUES) + 6 + 1, Len(ln)), {";", "\n"})

\* the early returns: not an INSERT INTO line, or no VALUES in it
NoScan(ln) ==
    \/ ~StartsWith(ln, Str_INSERT_INTO)
    \/ Find(ln, Str_VALUES) + 6 = 5

RECURSIVE ScanFrom(_, _, _)
ScanFrom(st, s, k) ==
    IF k > Len(s) THEN st ELSE ScanFrom(ScanChar(st, s[k]), s, k + 1)

\* the function as a whole
parse_sql_insert(ln) ==
    IF NoScan(ln) THEN <<>> ELSE ScanFrom(ScanInit, ValuesStr(ln), 1).rows


----------------------------------------------------------------------------
(* Input lines for parse_sql_insert.  A line is put together from a         *)
(* sequence of fields `fs`, cut into row groups after the positions in      *)
(* `cuts`; `kind` says what surrounds the groups.                           *)

MaxFields == 3

Shapes == {"U", "Q", "E", "N"}

\* the text of a field as it stands in the dump
Text(shape) ==
    CASE shape = "U" -> <<"1">>                                \* unquoted token
      [] shape = "Q" -> <<"'", "O", "\\", "'", ",", ")", "'">> \* 'O\',)'
      [] shape = "E" -> <<"'", "'">>                           \* ''
      [] shape = "N" -> <<"(", "a", ",", "b", ")">>            \* nested (a,b)

\* the content of a field: delimiting quotes removed, backslashes kept
Value(shape) ==
    CASE shape = "U" -> <<"1">>
      [] shape = "Q" -> <<"O", "\\", "'", ",", ")">>
      [] shape = "E" -> <<>>
      [] shape = "N" -> <<"(", "a", ",", "b", ")">>

Str_Head == Str_INSERT_INTO \o <<" ", "t", " ">> \o Str_VALUES \o <<" ">>
Str_NoValues == Str_INSERT_INTO \o <<" ", "t", " ">>
Str_Select == <<"S", "E", "L", "E", "C", "T", " ">>
Str_Noise == <<"\\", "x", "'", "y", "'">>       \* \x'y' in front of the first group
Str_OpenParen == <<"(", "1", ",", "2">>         \* group cut off inside a token
Str_OpenQuote == <<"(", "1", ",", "'", "a">>    \* group cut off inside a string
Str_End == <<";", "\n">>

RECURSIVE RenderFrom(_, _, _)
RenderFrom(fs, cuts, k) ==
    IF k > Len(fs) THEN <<>>
    ELSE (IF k = 1 THEN <<"(">>
          ELSE IF (k - 1) \in cuts THEN <<")", ",", "(">>
          ELSE <<",">>)
         \o Text(fs[k])
         \o (IF k = Len(fs) THEN <<")">> ELSE <<>>)
         \o RenderFrom(fs, cuts, k + 1)

Body(s) == RenderFrom(s.fs, s.cuts, 1)

Sep(s) == IF s.fs = <<>> THEN <<>> ELSE <<",">>

Line(s) ==
    CASE s.kind = "clean"     -> Str_Head \o Body(s) \o Str_End
      [] s.kind = "noise"     -> Str_Head \o Str_Noise \o Body(s) \o Str_End
      [] s.kind = "openparen" -> Str_Head \o Body(s) \o Sep(s) \o Str_OpenParen
      [] s.kind = "openquote" -> Str_Head \o Body(s) \o Sep(s) \o Str_OpenQuote
      [] s.kind = "novalues"  -> Str_NoValues \o Body(s) \o Str_End
      [] s.kind = "select"    -> Str_Select \o Body(s) \o Str_End

ScanKinds == {"clean", "noise", "openparen", "openquote"}
SkipKinds == {"novalues", "select"}

FieldSeqs(n) == UNION {[1..t -> Shapes] : t \in 0..n}

Sources ==
    UNION {
        {[kind |-> k, fs |-> f, cuts |-> c] :
            k \in (IF Len(f) <= 1 THEN ScanKinds \cup SkipKinds ELSE ScanKinds),
            c \in SUBSET (1..(Len(f) - 1))}
        : f \in FieldSeqs(MaxFields)}

\* the groups of a source, each a sequence of shapes
RECURSIVE SplitGroups(_, _, _)
SplitGroups(fs, cuts, k) ==
    IF k > Len(fs) THEN <<>>
    ELSE LET ends == {e \in k..Len(fs) : e \in cuts \/ e = Len(fs)}
             e    == CHOOSE x \in ends : \A y \in ends : x <= y
         IN  <<SubSeq(fs, k, e)>> \o SplitGroups(fs, cuts, e + 1)

Groups(s) == SplitGroups(s.fs, s.cuts, 1)

----------------------------------------------------------------------------
(* The parts of the program that a specification leaves out stay as they are *)

\* a file that does not exist, and one that holds `content`
NoFile == [exists |-> FALSE, content |-> <<>>]

File(content) == [exists |-> TRUE, content |-> content]

DumpIdle ==
    /\ langlinks_file = NoFile /\ page_file = NoFile
    /\ dpc = "idle" /\ lineno = 0
    /\ page_to_target = <<>> /\ results = <<>>
    /\ output_file = NoFile /\ returned = ""

ResolveIdle ==
    /\ lang_code = <<>> /\ row = <<>> /\ cellno = 0
    /\ bridge_value = <<>> /\ lang_value = <<>>
    /\ rpc = "idle" /\ accepted = FALSE

MergeIdle ==
    /\ lang_files = <<>> /\ disk = <<>> /\ mpc = "idle" /\ tableno = 0
    /\ all_data = <<>> /\ lang_names = <<>> /\ merged = <<>>
    /\ unique_merged = <<>> /\ merged_file = NoFile

ParseIdle ==
    /\ src = [kind |-> "clean", fs |-> <<>>, cuts |-> {}]
    /\ line = <<>> /\ pc = "idle" /\ values_str = <<>> /\ idx = 0
    /\ rows = <<>> /\ depth = 0 /\ current = <<>> /\ field = <<>>
    /\ in_quote = FALSE /\ escape_next = FALSE /\ result = <<>>

----------------------------------------------------------------------------
(* parse_sql_insert as a state machine *)

State ==
    [rows |-> rows, depth |-> depth, current |-> current, field |-> field,
     in_quote |-> in_quote, escape_next |-> escape_next]

SetState(st) ==
    /\ rows' = st.rows
    /\ depth' = st.depth
    /\ current' = st.current
    /\ field' = st.field
    /\ in_quote' = st.in_quote
    /\ escape_next' = st.escape_next

ParseInit ==
    /\ src \in Sources
    /\ line = Line(src)
    /\ pc = "start"
    /\ values_str = <<>>
    /\ idx = 0
    /\ rows = <<>> /\ depth = 0 /\ current = <<>> /\ field = <<>>
    /\ in_quote = FALSE /\ escape_next = FALSE
    /\ result = <<>>

\* lines 135-140: return [] without scanning
ReturnEarly ==
    /\ pc = "start"
    /\ NoScan(line)
    /\ result' = <<>>
    /\ pc' = "done"
    /\ UNCHANGED <<src, line, values_str, idx, rows, depth, current, field,
                   in_quote, escape_next>>
    /\ UNCHANGED notParse

\* lines 142-148
StartScan ==
    /\ pc = "start"
    /\ ~NoScan(line)
    /\ values_str' = ValuesStr(line)
    /\ idx' = 0
    /\ SetState(ScanInit)
    /\ pc' = "scan"
    /\ UNCHANGED <<src, line, result>>
    /\ UNCHANGED notParse

\* the character the for loop hands to the body next
Char == values_str[idx + 1]

\* the loop takes one more character and leaves the rest of the frame alone
Consume ==
    /\ idx' = idx + 1
    /\ UNCHANGED <<src, line, pc, values_str, result>>
    /\ UNCHANGED notParse

\* lines 151-154
ScanEscaped ==
    /\ pc = "scan" /\ idx < Len(values_str)
    /\ Branch(State, Char) = "escaped"
    /\ SetState(OnEscaped(State, Char))
    /\ Consume

\* lines 156-159
ScanBackslash ==
    /\ pc = "scan" /\ idx < Len(values_str)
    /\ Branch(State, Char) = "backslash"
    /\ SetState(OnBackslash(State, Char))
    /\ Consume

\* lines 161-163
ScanQuote ==
    /\ pc = "scan" /\ idx < Len(values_str)
    /\ Branch(State, Char) = "quote"
    /\ SetState(OnQuote(State, Char))
    /\ Consume

\* lines 165-167
ScanInQuote ==
    /\ pc = "scan" /\ idx < Len(values_str)
    /\ Branch(State, Char) = "inquote"
    /\ SetState(OnInQuote(State, Char))
    /\ Consume

\* lines 169-173
ScanOpen ==
    /\ pc = "scan" /\ idx < Len(values_str)
    /\ Branch(State, Char) = "open"
    /\ SetState(OnOpen(State, Char))
    /\ Consume

\* lines 175-183
ScanClose ==
    /\ pc = "scan" /\ idx < Len(values_str)
    /\ Branch(State, Char) = "close"
    /\ SetState(OnClose(State, Char))
    /\ Consume

\* lines 185-188
ScanComma ==
    /\ pc = "scan" /\ idx < Len(values_str)
    /\ Branch(State, Char) = "comma"
    /\ SetState(OnComma(State, Char))
    /\ Consume

\* lines 190-191
ScanOther ==
    /\ pc = "scan" /\ idx < Len(values_str)
    /\ Branch(State, Char) = "other"
    /\ SetState(OnOther(State, Char))
    /\ Consume

\* variant of Return that also hands back the row still open at end of line
ReturnFlush ==
    /\ pc = "scan"
    /\ idx = Len(values_str)
    /\ result' = IF depth > 0 THEN Append(rows, Append(current, field)) ELSE rows
    /\ pc' = "done"
    /\ UNCHANGED <<src, line, values_str, idx, rows, depth, current, field,
                   in_quote, escape_next>>
    /\ UNCHANGED notParse

\* line 193: return rows
Return ==
    /\ pc = "scan"
    /\ idx = Len(values_str)
    /\ result' = rows
    /\ pc' = "done"
    /\ UNCHANGED <<src, line, values_str, idx, rows, depth, current, field,
                   in_quote, escape_next>>
    /\ UNCHANGED notParse

ParseNext ==
    \/ ReturnEarly
    \/ StartScan
    \/ ScanEscaped
    \/ ScanBackslash
    \/ ScanQuote
    \/ ScanInQuote
    \/ ScanOpen
    \/ ScanClose
    \/ ScanComma
    \/ ScanOther
    \/ Return

Init == ParseInit /\ DumpIdle /\ bridge_lang = <<>> /\ ResolveIdle /\ MergeIdle

Next == ParseNext

Spec == Init /\ [][Next]_vars


----------------------------------------------------------------------------
(* Claims about parse_sql_insert *)

Range(f) == {f[k] : k \in DOMAIN f}

Map(f, Op(_)) == [k \in 1..Len(f) |-> Op(f[k])]

\* a well-formed line: "INSERT INTO t VALUES (g_1),...,(g_k);" and nothing else
WellFormed == src.kind = "clean" /\ "N" \notin Range(src.fs)

\* one string per field, in order
FieldValues(g) == Map(g, Value)

\* a tuple without its last field when that field is empty
DropEmptyLast(t) ==
    IF t # <<>> /\ t[Len(t)] = <<>> THEN SubSeq(t, 1, Len(t) - 1) ELSE t

NonEmpty(t) == t # <<>>

\* C4 as stated: on a well-formed line the result is exactly one tuple per
\* group, in input order, each holding exactly one string per field of its
\* group (quotes removed, backslash sequences verbatim), empty strings included.
C4_PositionsPreserved ==
    (pc = "done" /\ WellFormed) => result = Map(Groups(src), FieldValues)

\* C4 amended: on a well-formed line the result holds, in input order, one
\* tuple per group, each holding one string per field of its group in order
\* (quotes removed, backslash sequences verbatim), except that an empty last
\* field of a group is left out, and a group left with no field yields no tuple.
C4_PositionsPreservedButEmptyLast ==
    (pc = "done" /\ WellFormed) =>
        result = SelectSeq(Map(Map(Groups(src), FieldValues), DropEmptyLast), NonEmpty)

\* a well-formed line of three groups, with a quoted string holding an escaped
\* quote, a comma and a parenthesis, and an empty string in first position
C4_Witness ==
    /\ pc = "done" /\ WellFormed
    /\ Len(Groups(src)) = 3
    /\ src.fs[1] = "E" /\ src.fs[2] = "Q"
    /\ Len(result) = 2

NestedValues == {<<"(", "a", ",", "b", ")">>, <<"a", ",", "b">>}

\* the tuple holds one field per field of the group, the nested sub-value as
\* one literal holding its characters
OpaqueMatch(t, g) ==
    /\ Len(t) = Len(g)
    /\ \A k \in 1..Len(g) :
          IF g[k] = "N" THEN t[k] \in NestedValues ELSE t[k] = Value(g[k])

\* C6: a nested parenthesised sub-value such as (a,b) in a field position gives
\* exactly one field for that position, holding the sub-value's characters as
\* one literal, and the other fields keep their positions.
C6_NestedOpaque ==
    (pc = "done" /\ src.kind = "clean" /\ "N" \in Range(src.fs) /\ "E" \notin Range(src.fs)) =>
        /\ Len(result) = Len(Groups(src))
        /\ \A j \in 1..Len(result) : OpaqueMatch(result[j], Groups(src)[j])

Truncated == src.kind \in {"openparen", "openquote"}

\* C8: the scan never leaves the text it reads and ends in the return; a line
\* that is no INSERT INTO ... VALUES line returns the empty sequence; a group
\* still open at end of line (unclosed parenthesis or quote) adds no tuple and
\* takes none away: the result is the one of the same line without that group.
C8_OpenGroupDropped ==
    /\ pc = "scan" => idx \in 0..Len(values_str)
    /\ (pc = "done" /\ src.kind \in SkipKinds) => result = <<>>
    /\ (pc = "done" /\ Truncated) =>
          result = parse_sql_insert(Line([src EXCEPT !.kind = "clean"]))

\* a line cut off inside a quoted string whose two closed groups were returned
C8_Witness ==
    /\ pc = "done" /\ src.kind = "openquote"
    /\ Len(result) = 2
    /\ in_quote /\ depth = 1

\* C10: a character consumed at depth 0 leaves field and current as they
\* were (an opening parenthesis, which starts the next row, aside).
C10_DepthZeroFrame ==
    [][(pc = "scan" /\ pc' = "scan" /\ depth = 0 /\ Char # "(")
          => (field' = field /\ current' = current)]_vars


----------------------------------------------------------------------------
(* parse_wikipedia_dump(source_lang, target_lang) *)

MaxLines == 2

source_lang == <<"j", "a">>
target_lang == <<"l", "a">>

\* 'text'
Quoted(text) == <<"'">> \o text \o <<"'">>

RECURSIVE JoinWith(_, _)
JoinWith(parts, sep) ==
    IF parts = <<>> THEN <<>>
    ELSE IF Len(parts) = 1 THEN parts[1]
    ELSE parts[1] \o sep \o JoinWith(Tail(parts), sep)

\* (f1,f2,...)
GroupText(fields) == <<"(">> \o JoinWith(fields, <<",">>) \o <<")">>

\* INSERT INTO t VALUES (..),(..);\n
InsertLine(groups) ==
    Str_Head \o JoinWith(Map(groups, GroupText), <<",">>) \o Str_End

LangRow(id, lang, title) == <<id, Quoted(lang), Quoted(title)>>
PageRow(id, ns, title) == <<id, ns, Quoted(title)>>

\* lines of a langlinks dump: (ll_from, ll_lang, ll_title)
LanglinksLines ==
    { InsertLine(<<LangRow(<<"1">>, <<"l","a">>, <<"A">>)>>),
      InsertLine(<<LangRow(<<"1">>, <<"l","a">>, <<"B">>),
                   LangRow(<<"2">>, <<"l","a">>, <<"A">>)>>),
      InsertLine(<<LangRow(<<"2">>, <<"f","r">>, <<"B">>),
                   <<<<"1">>, Quoted(<<"l","a">>)>>>>),
      Str_Select \o Str_End }

\* lines of a page dump: (page_id, page_namespace, page_title)
PageLines ==
    { InsertLine(<<PageRow(<<"1">>, <<"0">>, <<"X">>)>>),
      InsertLine(<<PageRow(<<"1">>, <<"1">>, <<"T">>),
                   PageRow(<<"2">>, <<"0">>, <<"Y">>)>>),
      InsertLine(<<PageRow(<<"3">>, <<"0">>, <<"Z">>),
                   <<<<"1">>, <<"0">>>>>>),
      InsertLine(<<PageRow(<<"2">>, <<"0">>, <<"W">>),
                   PageRow(<<"1">>, <<"0">>, <<"X">>)>>) }

Streams(pool) == UNION {[1..n -> pool] : n \in 0..MaxLines}

\* dict lookup, membership and assignment; a dict is a function on its keys
HasKey(d, k) == k \in DOMAIN d

\* variant of DictPut that keeps the value a key already has
DictPutIfAbsent(d, k, v) ==
    IF k \in DOMAIN d THEN d ELSE [x \in DOMAIN d \cup {k} |-> IF x = k THEN v ELSE d[x]]

\* d[k] = v
DictPut(d, k, v) ==
    [x \in DOMAIN d \cup {k} |-> IF x = k THEN v ELSE d[x]]

EmptyDict == [x \in {} |-> <<>>]

\* lines 226-230, for the rows of one line
RECURSIVE IndexRows(_, _)
IndexRows(d, rs) ==
    IF rs = <<>> THEN d
    ELSE LET tuple == Head(rs)
         IN  IndexRows(IF Len(tuple) >= 3 /\ tuple[2] = target_lang
                       THEN DictPut(d, tuple[1], tuple[3])
                       ELSE d,
                       Tail(rs))

\* lines 245-256, for the rows of one line
RECURSIVE MatchRows(_, _, _)
MatchRows(res, d, rs) ==
    IF rs = <<>> THEN res
    ELSE LET tuple == Head(rs)
         IN  MatchRows(IF Len(tuple) >= 3 /\ tuple[2] = <<"0">> /\ HasKey(d, tuple[1])
                       THEN Append(res, <<tuple[1], tuple[3], d[tuple[1]]>>)
                       ELSE res,
                       d, Tail(rs))

DumpInit ==
    /\ langlinks_file \in {File(c) : c \in Streams(LanglinksLines)} \cup {NoFile}
    /\ page_file \in {File(c) : c \in Streams(PageLines)} \cup {NoFile}
    /\ dpc = "check"
    /\ lineno = 0
    /\ page_to_target = EmptyDict
    /\ results = <<>>
    /\ output_file = NoFile
    /\ returned = ""

\* lines 212-217: a dump is missing
MissingDump ==
    /\ dpc = "check"
    /\ ~langlinks_file.exists \/ ~page_file.exists
    /\ returned' = "None"
    /\ dpc' = "done"
    /\ UNCHANGED <<langlinks_file, page_file, lineno, page_to_target, results, output_file>>
    /\ UNCHANGED notDump

\* lines 219-223
OpenLanglinks ==
    /\ dpc = "check"
    /\ langlinks_file.exists /\ page_file.exists
    /\ page_to_target' = EmptyDict
    /\ lineno' = 0
    /\ dpc' = "langlinks"
    /\ UNCHANGED <<langlinks_file, page_file, results, output_file, returned>>
    /\ UNCHANGED notDump

\* lines 224-230: one line of the langlinks dump
ReadLanglinksLine ==
    /\ dpc = "langlinks"
    /\ lineno < Len(langlinks_file.content)
    /\ page_to_target' = IndexRows(page_to_target, parse_sql_insert(langlinks_file.content[lineno + 1]))
    /\ lineno' = lineno + 1
    /\ UNCHANGED <<langlinks_file, page_file, dpc, results, output_file, returned>>
    /\ UNCHANGED notDump

\* lines 234-236: no link to the target language
NoLinks ==
    /\ dpc = "langlinks"
    /\ lineno = Len(langlinks_file.content)
    /\ DOMAIN page_to_target = {}
    /\ returned' = "None"
    /\ dpc' = "done"
    /\ UNCHANGED <<langlinks_file, page_file, lineno, page_to_target, results, output_file>>
    /\ UNCHANGED notDump

\* lines 238-242
OpenPages ==
    /\ dpc = "langlinks"
    /\ lineno = Len(langlinks_file.content)
    /\ DOMAIN page_to_target # {}
    /\ results' = <<>>
    /\ lineno' = 0
    /\ dpc' = "pages"
    /\ UNCHANGED <<langlinks_file, page_file, page_to_target, output_file, returned>>
    /\ UNCHANGED notDump

\* lines 243-256: one line of the page dump
ReadPageLine ==
    /\ dpc = "pages"
    /\ lineno < Len(page_file.content)
    /\ results' = MatchRows(results, page_to_target, parse_sql_insert(page_file.content[lineno + 1]))
    /\ lineno' = lineno + 1
    /\ UNCHANGED <<langlinks_file, page_file, dpc, page_to_target, output_file, returned>>
    /\ UNCHANGED notDump

\* lines 263-276: the csv, one line per result
WriteCsv ==
    /\ dpc = "pages"
    /\ lineno = Len(page_file.content)
    /\ output_file' = File(results)
    /\ returned' = "output_file"
    /\ dpc' = "done"
    /\ UNCHANGED <<langlinks_file, page_file, lineno, page_to_target, results>>
    /\ UNCHANGED notDump

DumpNext ==
    \/ MissingDump
    \/ OpenLanglinks
    \/ ReadLanglinksLine
    \/ NoLinks
    \/ OpenPages
    \/ ReadPageLine
    \/ WriteCsv

InitDump == DumpInit /\ ParseIdle /\ bridge_lang = <<>> /\ ResolveIdle /\ MergeIdle

SpecDump == InitDump /\ [][DumpNext]_vars

----------------------------------------------------------------------------
(* Claims about parse_wikipedia_dump *)

RECURSIVE Flatten(_)
Flatten(ss) == IF ss = <<>> THEN <<>> ELSE Head(ss) \o Flatten(Tail(ss))

\* the RowTuples of a whole dump, in stream order
Tuples(file) == Flatten(Map(file.content, parse_sql_insert))

IsLink(f) == Len(f) >= 3 /\ f[2] = target_lang

\* positions in the langlinks tuples ll of the target-language links of a page
LinkHits(ll, id) == {k \in 1..Len(ll) : IsLink(ll[k]) /\ ll[k][1] = id}

\* T[id]: the title of the last such link
LastTitle(ll, id) ==
    ll[CHOOSE k \in LinkHits(ll, id) : \A m \in LinkHits(ll, id) : m <= k][3]

\* the page tuples that give a row
Joined(ll, pg) ==
    LET Joins(f) == Len(f) >= 3 /\ f[2] = <<"0">> /\ LinkHits(ll, f[1]) # {}
    IN  SelectSeq(pg, Joins)

\* one row per joined page tuple, in page-stream order
JoinRows(ll, pg) ==
    LET Correspondence(f) == <<f[1], f[3], LastTitle(ll, f[1])>>
    IN  Map(Joined(ll, pg), Correspondence)

\* C2: the rows produced are, in page-stream order, exactly one row
\* (f[0], f[2], T[f[0]]) per page tuple f with at least 3 fields, f[1] = "0"
\* and f[0] in T, where T maps a page id to the title of the LAST langlinks
\* tuple with at least 3 fields and field[1] = target language, over the
\* complete langlinks stream; the csv written holds these rows.
C2_TwoPhaseJoin ==
    (dpc = "done" /\ langlinks_file.exists /\ page_file.exists) =>
        /\ results = JoinRows(Tuples(langlinks_file), Tuples(page_file))
        /\ returned = "output_file" => output_file = File(results)

\* a page whose link was overwritten by a later langlinks line, joined with
\* the later title, next to a page row of another namespace that gave no row
C2_Witness ==
    /\ dpc = "done" /\ returned = "output_file"
    /\ Len(langlinks_file.content) = 2
    /\ Cardinality(LinkHits(Tuples(langlinks_file), <<"1">>)) = 2
    /\ LastTitle(Tuples(langlinks_file), <<"1">>) = <<"B">>
    /\ Len(Tuples(page_file)) > Len(results)
    /\ \E k \in 1..Len(results) : results[k] = <<<<"1">>, <<"X">>, <<"B">>>>


----------------------------------------------------------------------------
(* Language names, and the str methods merge_languages uses *)

Str_en == <<"e", "n">>
Str_ja == <<"j", "a">>
Str_la == <<"l", "a">>
Str_id == <<"i", "d">>

\* the entries of LANGUAGE_NAMES for the languages used here:
\* 'en': U+82F1 U+8A9E, 'ja': U+65E5 U+672C U+8A9E, 'la': U+30E9 U+30C6 U+30F3 U+8A9E
LANGUAGE_NAMES ==
    (Str_en :> <<"u82f1", "u8a9e">>) @@
    (Str_ja :> <<"u65e5", "u672c", "u8a9e">>) @@
    (Str_la :> <<"u30e9", "u30c6", "u30f3", "u8a9e">>)

LowerCase == <<"a","b","c","d","e","f","g","h","i","j","k","l","m",
               "n","o","p","q","r","s","t","u","v","w","x","y","z">>
UpperCase == <<"A","B","C","D","E","F","G","H","I","J","K","L","M",
               "N","O","P","Q","R","S","T","U","V","W","X","Y","Z">>

LowerChar(c) ==
    IF \E k \in 1..Len(UpperCase) : UpperCase[k] = c
    THEN LowerCase[CHOOSE k \in 1..Len(UpperCase) : UpperCase[k] = c]
    ELSE c

UpperChar(c) ==
    IF \E k \in 1..Len(LowerCase) : LowerCase[k] = c
    THEN UpperCase[CHOOSE k \in 1..Len(LowerCase) : LowerCase[k] = c]
    ELSE c

\* s.lower(), s.upper()
Lower(s) == Map(s, LowerChar)
Upper(s) == Map(s, UpperChar)

\* sub in s
Contains(s, sub) == Find(s, sub) # -1

Whitespace == {" ", "\t", "\n", "\r"}

\* s.strip()
Strip(s) ==
    LET keep  == {k \in 1..Len(s) : s[k] \notin Whitespace}
        first == CHOOSE k \in keep : \A m \in keep : k <= m
        last  == CHOOSE k \in keep : \A m \in keep : m <= k
    IN  IF keep = {} THEN <<>> ELSE SubSeq(s, first, last)

\* LANGUAGE_NAMES.get(code, code.upper())
NameOrUpper(code) ==
    IF code \in DOMAIN LANGUAGE_NAMES THEN LANGUAGE_NAMES[code] ELSE Upper(code)

\* LANGUAGE_NAMES.get(code, code)
NameOrCode(code) ==
    IF code \in DOMAIN LANGUAGE_NAMES THEN LANGUAGE_NAMES[code] ELSE code

\* Python's None, which is no str
None == <<"None">>

\* the truth value of a str or None
Truthy(v) == v # None /\ v # <<>>

\* dicts that keep insertion order: sequences of <<key, value>>
OHas(d, k) == \E i \in 1..Len(d) : d[i][1] = k

OGet(d, k) == d[CHOOSE i \in 1..Len(d) : d[i][1] = k][2]

OPut(d, k, v) ==
    IF OHas(d, k)
    THEN [i \in 1..Len(d) |-> IF d[i][1] = k THEN <<k, v>> ELSE d[i]]
    ELSE Append(d, <<k, v>>)

OValues(d) == [i \in 1..Len(d) |-> d[i][2]]

----------------------------------------------------------------------------
(* merge_languages, lines 314-325: the column roles of one row *)

bridge_name == NameOrUpper(bridge_lang)

\* line 320: bridge_name in key or bridge_lang in key.lower()
IsBridgeKey(key) ==
    Contains(key, bridge_name) \/ Contains(Lower(key), bridge_lang)

\* line 322: lang_name in key or lang_code in key.lower()
IsLangKey(key, lc) ==
    Contains(key, NameOrUpper(lc)) \/ Contains(Lower(key), lc)

\* which branch of lines 320-323 an item takes
Role(key, lc) ==
    IF IsBridgeKey(key) THEN "bridge"
    ELSE IF IsLangKey(key, lc) THEN "lang"
    ELSE "none"

\* variant of TakeRole in which a role, once given a value, keeps it
TakeRoleOnce(acc, key, value, lc) ==
    CASE Role(key, lc) = "bridge" /\ acc.bridge_value = None ->
            [acc EXCEPT !.bridge_value = Strip(value)]
      [] Role(key, lc) = "lang" /\ acc.lang_value = None ->
            [acc EXCEPT !.lang_value = Strip(value)]
      [] OTHER -> acc

\* lines 319-323 for one item of the row
TakeRole(acc, key, value, lc) ==
    CASE Role(key, lc) = "bridge" -> [acc EXCEPT !.bridge_value = Strip(value)]
      [] Role(key, lc) = "lang"   -> [acc EXCEPT !.lang_value = Strip(value)]
      [] OTHER                    -> acc

NoRoles == [bridge_value |-> None, lang_value |-> None]

RECURSIVE TakeRoles(_, _, _)
TakeRoles(acc, items, lc) ==
    IF items = <<>> THEN acc
    ELSE TakeRoles(TakeRole(acc, Head(items)[1], Head(items)[2], lc), Tail(items), lc)

\* lines 316-323 for a whole row
ResolveRow(items, lc) == TakeRoles(NoRoles, items, lc)

\* line 325: if bridge_value and lang_value
Accept(bv, lv) == Truthy(bv) /\ Truthy(lv)

MaxCols == 4

Str_page_id == <<"p", "a", "g", "e", "_", "i", "d">>

\* header cells
Keys ==
    { Str_page_id,
      LANGUAGE_NAMES[Str_ja],
      LANGUAGE_NAMES[Str_la],
      <<"I", "D">>,
      <<"L", "A">>,
      <<"t", "i", "t", "l", "e">> }

Digits == <<"1", "2", "3", "4", "5", "6", "7", "8", "9">>

\* the value in column k: " vk ", or blank in the column `blank`
CellValue(k, blank) ==
    IF k = blank THEN <<" ">> ELSE <<" ", "v", Digits[k], " ">>

\* headers of pairwise distinct cells
Headers ==
    UNION {{h \in [1..n -> Keys] : \A i, j \in 1..n : h[i] = h[j] => i = j}
           : n \in 0..MaxCols}

\* (bridge language, language of the table)
RolePairs == {<<Str_la, Str_ja>>, <<Str_la, Str_id>>, <<Str_id, Str_la>>}

ResolveInit ==
    /\ \E p \in RolePairs :
          /\ bridge_lang = p[1]
          /\ lang_code = p[2]
    /\ \E h \in Headers : \E blank \in 0..Len(h) :
          row = [k \in 1..Len(h) |-> <<h[k], CellValue(k, blank)>>]
    /\ cellno = 0
    /\ bridge_value = None
    /\ lang_value = None
    /\ rpc = "items"
    /\ accepted = FALSE

Roles == [bridge_value |-> bridge_value, lang_value |-> lang_value]

\* the next item of the row is taken; which = the branch it goes through
TakeItem(which) ==
    /\ rpc = "items"
    /\ cellno < Len(row)
    /\ Role(row[cellno + 1][1], lang_code) = which
    /\ LET acc == TakeRole(Roles, row[cellno + 1][1], row[cellno + 1][2], lang_code)
       IN  /\ bridge_value' = acc.bridge_value
           /\ lang_value' = acc.lang_value
    /\ cellno' = cellno + 1
    /\ UNCHANGED <<bridge_lang, lang_code, row, rpc, accepted>>
    /\ UNCHANGED notResolve

\* lines 320-321
ItemIsBridge == /\ TakeItem("bridge")

\* lines 322-323
ItemIsLang == /\ TakeItem("lang")

\* neither condition holds
ItemIsOther == /\ TakeItem("none")

\* line 325
Decide ==
    /\ rpc = "items"
    /\ cellno = Len(row)
    /\ accepted' = Accept(bridge_value, lang_value)
    /\ rpc' = "done"
    /\ UNCHANGED <<bridge_lang, lang_code, row, cellno, bridge_value, lang_value>>
    /\ UNCHANGED notResolve

ResolveNext ==
    \/ ItemIsBridge
    \/ ItemIsLang
    \/ ItemIsOther
    \/ Decide

InitResolve == ResolveInit /\ ParseIdle /\ DumpIdle /\ MergeIdle

SpecResolve == InitResolve /\ [][ResolveNext]_vars

----------------------------------------------------------------------------
(* Claims about the column roles *)

BridgeCols == {k \in 1..Len(row) : IsBridgeKey(row[k][1])}

LangCols == {k \in 1..Len(row) : ~IsBridgeKey(row[k][1]) /\ IsLangKey(row[k][1], lang_code)}

MinOf(S) == CHOOSE k \in S : \A m \in S : k <= m
MaxOf(S) == CHOOSE k \in S : \A m \in S : m <= k

\* C9 as stated: the bridge value is the (trimmed) value of the FIRST cell
\* whose header satisfies the bridge predicate, and the language value the one
\* of the FIRST cell that fails the bridge predicate and satisfies the
\* language predicate.
C9_FirstMatch ==
    rpc = "done" =>
        /\ BridgeCols # {} => bridge_value = Strip(row[MinOf(BridgeCols)][2])
        /\ LangCols # {} => lang_value = Strip(row[MinOf(LangCols)][2])

\* C9 amended: with pairwise distinct header cells, the bridge value is the
\* trimmed value of the LAST cell whose header satisfies the bridge predicate,
\* the language value the one of the LAST cell that fails the bridge predicate
\* and satisfies the language predicate; a role no cell takes stays None, and
\* the row is let in only if both values are non-empty.
C9_LastMatch ==
    rpc = "done" =>
        /\ bridge_value = IF BridgeCols = {} THEN None
                          ELSE Strip(row[MaxOf(BridgeCols)][2])
        /\ lang_value = IF LangCols = {} THEN None
                        ELSE Strip(row[MaxOf(LangCols)][2])
        /\ accepted <=> (bridge_value \notin {None, <<>>} /\ lang_value \notin {None, <<>>})

\* a row with two bridge cells and two language cells of different values
C9_Witness ==
    /\ rpc = "done"
    /\ Cardinality(BridgeCols) = 2 /\ Cardinality(LangCols) = 2
    /\ row[MinOf(BridgeCols)][2] # row[MaxOf(BridgeCols)][2]
    /\ bridge_value = Strip(row[MaxOf(BridgeCols)][2])
    /\ lang_value = Strip(row[MaxOf(LangCols)][2])
    /\ accepted


----------------------------------------------------------------------------
(* merge_languages(lang_files, bridge_lang, output_file) *)

MaxRows == 4

\* the code points of the characters of a title
Ord(c) ==
    CASE c = " " -> 32
      [] c = "7" -> 55
      [] c = "R" -> 82
      [] c = "S" -> 83
      [] c = "x" -> 120
      [] c = "y" -> 121

\* a < b for two str
RECURSIVE StrLess(_, _)
StrLess(a, b) ==
    IF b = <<>> THEN FALSE
    ELSE IF a = <<>> THEN TRUE
    ELSE IF Ord(Head(a)) # Ord(Head(b)) THEN Ord(Head(a)) < Ord(Head(b))
    ELSE StrLess(Tail(a), Tail(b))

\* the header parse_wikipedia_dump writes (line 264) for the table of a language
Header(lc) == <<Str_page_id, NameOrUpper(lc), NameOrUpper(bridge_lang)>>

\* the row csv.DictReader makes of the cells of one line
RECURSIVE DictRow(_, _, _)
DictRow(d, header, cells) ==
    IF header = <<>> THEN d
    ELSE DictRow(OPut(d, Head(header), Head(cells)), Tail(header), Tail(cells))

\* lines 326-333
IndexTitle(data, bv, lc, lv) ==
    LET d1   == IF ~OHas(data, bv) THEN OPut(data, bv, <<>>) ELSE data
        ld   == OGet(d1, bv)
        ld1  == IF ~OHas(ld, lc) THEN OPut(ld, lc, <<>>) ELSE ld
        lst  == OGet(ld1, lc)
        lst1 == IF \A k \in 1..Len(lst) : lst[k] # lv THEN Append(lst, lv) ELSE lst
    IN  OPut(d1, bv, OPut(ld1, lc, lst1))

\* lines 314-333 for the lines of one table
RECURSIVE IndexTable(_, _, _)
IndexTable(data, lines, lc) ==
    IF lines = <<>> THEN data
    ELSE LET roles == ResolveRow(DictRow(<<>>, Header(lc), Head(lines)), lc)
         IN  IndexTable(IF Accept(roles.bridge_value, roles.lang_value)
                        THEN IndexTitle(data, roles.bridge_value, lc, roles.lang_value)
                        ELSE data,
                        Tail(lines), lc)

\* variant of Product that pairs the lists position by position, as zip does
RECURSIVE ZipLists(_)
ZipLists(lists) ==
    IF lists = <<>> \/ \E k \in 1..Len(lists) : lists[k] = <<>> THEN <<>>
    ELSE <<[k \in 1..Len(lists) |-> Head(lists[k])]>>
         \o ZipLists([k \in 1..Len(lists) |-> Tail(lists[k])])

\* itertools.product(*lists): the first list varies slowest
RECURSIVE Product(_)
Product(lists) ==
    IF lists = <<>> THEN << <<>> >>
    ELSE LET rest == Product(Tail(lists))
             WithHead(x) == [k \in 1..Len(rest) |-> <<x>> \o rest[k]]
         IN  Flatten(Map(Head(lists), WithHead))

\* line 350-351: the dict of one combination
RECURSIVE ComboRow(_, _, _)
ComboRow(d, names, combo) ==
    IF names = <<>> \/ combo = <<>> THEN d
    ELSE ComboRow(OPut(d, NameOrCode(Head(names)[1]), Head(combo)), Tail(names), Tail(combo))

\* line 344
InAllLanguages(lang_dict) == Len(lang_dict) = Len(lang_files)

\* lines 344-352 for one entry of all_data
RowsOf(bv, lang_dict) ==
    IF InAllLanguages(lang_dict)
    THEN LET lists == [k \in 1..Len(lang_names) |-> OGet(lang_dict, lang_names[k][1])]
             MakeRow(combo) == OPut(ComboRow(<<>>, lang_names, combo), bridge_name, bv)
         IN  Map(Product(lists), MakeRow)
    ELSE <<>>

\* lines 342-352
RECURSIVE MergeAll(_)
MergeAll(data) ==
    IF data = <<>> THEN <<>>
    ELSE RowsOf(Head(data)[1], Head(data)[2]) \o MergeAll(Tail(data))

\* lines 358-365
RECURSIVE Unique(_, _)
Unique(items, seen) ==
    IF items = <<>> THEN <<>>
    ELSE IF OValues(Head(items)) \in seen THEN Unique(Tail(items), seen)
    ELSE <<Head(items)>> \o Unique(Tail(items), seen \cup {OValues(Head(items))})

\* variant of SortByBridge that sorts from high to low
RECURSIVE SortByBridgeReverse(_)
SortByBridgeReverse(items) ==
    IF items = <<>> THEN <<>>
    ELSE LET sorted == SortByBridgeReverse(Tail(items))
             x      == Head(items)
             before == {k \in 0..Len(sorted) :
                          \A m \in 1..k : StrLess(OGet(x, bridge_name), OGet(sorted[m], bridge_name))}
             at     == CHOOSE k \in before : \A m \in before : m <= k
         IN  SubSeq(sorted, 1, at) \o <<x>> \o SubSeq(sorted, at + 1, Len(sorted))

\* line 370: list.sort(key=lambda x: x[bridge_name]), a stable sort
RECURSIVE SortByBridge(_)
SortByBridge(items) ==
    IF items = <<>> THEN <<>>
    ELSE LET sorted == SortByBridge(Tail(items))
             x      == Head(items)
             \* x goes in front of the first item that is not smaller than it
             before == {k \in 0..Len(sorted) :
                          \A m \in 1..k : StrLess(OGet(sorted[m], bridge_name), OGet(x, bridge_name))}
             at     == CHOOSE k \in before : \A m \in before : m <= k
         IN  SubSeq(sorted, 1, at) \o <<x>> \o SubSeq(sorted, at + 1, Len(sorted))

\* lines 375-380
Fieldnames ==
    LET names == [k \in 1..Len(lang_names) |-> NameOrCode(lang_names[k][1])]
        first == IF \E k \in 1..Len(names) : names[k] = bridge_name
                 THEN CHOOSE k \in 1..Len(names) :
                        /\ names[k] = bridge_name
                        /\ \A m \in 1..(k - 1) : names[m] # bridge_name
                 ELSE 0
    IN  IF first = 0 THEN Append(names, bridge_name)
        ELSE Append(SubSeq(names, 1, first - 1) \o SubSeq(names, first + 1, Len(names)),
                    bridge_name)

\* csv.DictWriter.writerows: the values of a row in fieldnames order
WriteRow(item, fieldnames) ==
    [k \in 1..Len(fieldnames) |->
        IF OHas(item, fieldnames[k]) THEN OGet(item, fieldnames[k]) ELSE <<>>]

Codes == {Str_ja, Str_en, Str_id}

\* the lists of languages asked for
LangLists ==
    { <<Str_ja>>, <<Str_ja, Str_en>>, <<Str_ja, Str_ja>>, <<Str_ja, Str_en, Str_id>> }

\* lines of a table: the cells are page id, title, title in the bridge language
Row_xR == <<<<"7">>, <<"x">>, <<"R">>>>
Row_yR == <<<<"7">>, <<"y">>, <<"R">>>>
Row_xS == <<<<"7">>, <<" ", "x", " ">>, <<" ", "S">>>>   \* padded with blanks
Row_blankR == <<<<"7">>, <<" ">>, <<"R">>>>              \* a blank title

\* the lines the table of a language may hold
RowPool(lc) ==
    CASE lc = Str_ja -> {Row_xR, Row_yR, Row_xS}
      [] lc = Str_en -> {Row_xR, Row_yR, Row_xS, Row_blankR}
      [] lc = Str_id -> {Row_xR, Row_xS}

\* the tables of n lines a language may have; no file at all only for n = 0
TableChoices(lc, n) ==
    IF lc \notin Range(lang_files) THEN {NoFile}
    ELSE {File(t) : t \in [1..n -> RowPool(lc)]} \cup (IF n = 0 THEN {NoFile} ELSE {})

MergeInit ==
    /\ bridge_lang = Str_la
    /\ lang_files \in LangLists
    /\ \E nj, ne, ni \in 0..MaxRows :
          /\ nj + ne + ni <= MaxRows
          /\ \E tj \in TableChoices(Str_ja, nj),
                te \in TableChoices(Str_en, ne),
                ti \in TableChoices(Str_id, ni) :
                disk = (Str_ja :> tj) @@ (Str_en :> te) @@ (Str_id :> ti)
    /\ mpc = "read"
    /\ tableno = 0
    /\ all_data = <<>>
    /\ lang_names = <<>>
    /\ merged = <<>>
    /\ unique_merged = <<>>
    /\ merged_file = NoFile

\* the language whose table is read next
NextCode == lang_files[tableno + 1]

\* lines 302-310: the table of the next language is not there
SkipTable ==
    /\ mpc = "read"
    /\ tableno < Len(lang_files)
    /\ ~disk[NextCode].exists
    /\ lang_names' = Append(lang_names, <<NextCode, NameOrUpper(NextCode)>>)
    /\ tableno' = tableno + 1
    /\ UNCHANGED <<bridge_lang, lang_files, disk, mpc, all_data, merged, unique_merged,
                   merged_file>>
    /\ UNCHANGED notMerge

\* lines 302-336: the table of the next language is read
ReadTable ==
    /\ mpc = "read"
    /\ tableno < Len(lang_files)
    /\ disk[NextCode].exists
    /\ lang_names' = Append(lang_names, <<NextCode, NameOrUpper(NextCode)>>)
    /\ all_data' = IndexTable(all_data, disk[NextCode].content, NextCode)
    /\ tableno' = tableno + 1
    /\ UNCHANGED <<bridge_lang, lang_files, disk, mpc, merged, unique_merged, merged_file>>
    /\ UNCHANGED notMerge

\* lines 338-352
BuildMerged ==
    /\ mpc = "read"
    /\ tableno = Len(lang_files)
    /\ merged' = MergeAll(all_data)
    /\ mpc' = "dedup"
    /\ UNCHANGED <<bridge_lang, lang_files, disk, tableno, all_data, lang_names,
                   unique_merged, merged_file>>
    /\ UNCHANGED notMerge

\* lines 356-365
Dedup ==
    /\ mpc = "dedup"
    /\ unique_merged' = Unique(merged, {})
    /\ mpc' = "save"
    /\ UNCHANGED <<bridge_lang, lang_files, disk, tableno, all_data, lang_names, merged,
                   merged_file>>
    /\ UNCHANGED notMerge

\* lines 369-385
SortAndSave ==
    /\ mpc = "save"
    /\ LET sorted == SortByBridge(unique_merged)
           Write(item) == WriteRow(item, Fieldnames)
       IN  /\ unique_merged' = sorted
           /\ merged_file' = File(<<Fieldnames, Map(sorted, Write)>>)
    /\ mpc' = "done"
    /\ UNCHANGED <<bridge_lang, lang_files, disk, tableno, all_data, lang_names, merged>>
    /\ UNCHANGED notMerge

MergeNext ==
    \/ SkipTable
    \/ ReadTable
    \/ BuildMerged
    \/ Dedup
    \/ SortAndSave

InitMerge == MergeInit /\ ParseIdle /\ DumpIdle /\ ResolveIdle

SpecMerge == InitMerge /\ [][MergeNext]_vars

----------------------------------------------------------------------------
(* Claims about merge_languages.  The tables have the header                *)
(* page_id, <language name>, <bridge name>: the title of a line is its       *)
(* second cell, its bridge value the third, both trimmed.                    *)

TitleOf(cells) == Strip(cells[2])
BridgeOf(cells) == Strip(cells[3])

\* the lines of the i-th table supplied (none when the file is not there)
TableLines(i) == disk[lang_files[i]].content

\* the distinct non-empty titles the i-th table holds for bridge value b
Candidates(i, b) ==
    {TitleOf(TableLines(i)[k]) : k \in {m \in 1..Len(TableLines(i)) :
        BridgeOf(TableLines(i)[m]) = b /\ TitleOf(TableLines(i)[m]) # <<>>}}

\* the bridge values of all lines of all tables
BridgeValues ==
    UNION {{BridgeOf(TableLines(i)[k]) : k \in 1..Len(TableLines(i))}
           : i \in 1..Len(lang_files)} \ {<<>>}

\* the bridge values with a candidate in every table supplied
InEveryTable == {b \in BridgeValues : \A i \in 1..Len(lang_files) : Candidates(i, b) # {}}

\* the rows of the merged output, each <<title_1, ..., title_N, bridge value>>
Output == merged_file.content[2]

OutBridge(r) == r[Len(r)]

OutputBridges == {OutBridge(Output[k]) : k \in 1..Len(Output)}

DistinctCodes ==
    \A i, j \in 1..Len(lang_files) : lang_files[i] = lang_files[j] => i = j

\* C1 as stated: for every list of supplied tables, a bridge value is in some
\* row of the output if and only if every one of the N tables has a line with
\* that bridge value and a title that is non-empty after trimming.
C1_InnerJoin ==
    mpc = "done" => OutputBridges = InEveryTable

\* The same for the lists of pairwise distinct language codes (a table whose
\* file is missing has no line).
InnerJoinDistinct ==
    (mpc = "done" /\ DistinctCodes) => OutputBridges = InEveryTable

\* two tables: R is in both and in the output, S is in the first only and is
\* not; the second table's only line for S has a blank title
InnerJoinDistinctCase ==
    /\ mpc = "done"
    /\ lang_files = <<Str_ja, Str_en>>
    /\ TableLines(1) = <<Row_xS, Row_xR>>
    /\ TableLines(2) = <<Row_blankR, Row_yR>>
    /\ OutputBridges = {<<"R">>}

\* the combinations of one candidate per table, each followed by b
Combinations(b) ==
    LET n == Len(lang_files)
        titles == UNION {Candidates(i, b) : i \in 1..n}
    IN  {[k \in 1..(n + 1) |-> IF k <= n THEN f[k] ELSE b] :
            f \in {g \in [1..n -> titles] : \A i \in 1..n : g[i] \in Candidates(i, b)}}

RECURSIVE SizeProduct(_, _)
SizeProduct(b, i) ==
    IF i > Len(lang_files) THEN 1
    ELSE Cardinality(Candidates(i, b)) * SizeProduct(b, i + 1)

RowsFor(b) == {k \in 1..Len(Output) : OutBridge(Output[k]) = b}

\* C3: for every bridge value b in the output, the rows with bridge value b
\* are exactly the combinations (c_1, ..., c_N, b) with c_i a distinct title
\* of table i for b, their number is the product of the N candidate-set sizes,
\* and no two rows of the output are equal.
C3_CartesianExpansion ==
    mpc = "done" =>
        /\ \A b \in OutputBridges :
              /\ {Output[k] : k \in RowsFor(b)} = Combinations(b)
              /\ Cardinality(RowsFor(b)) = SizeProduct(b, 1)
        /\ \A p, q \in 1..Len(Output) : Output[p] = Output[q] => p = q

\* two candidates in the first table, one in the second whose line is there
\* twice: two rows that differ in the first column only
C3_Witness ==
    /\ mpc = "done"
    /\ lang_files = <<Str_ja, Str_en>>
    /\ TableLines(1) = <<Row_yR, Row_xR>>
    /\ TableLines(2) = <<Row_xR, Row_xR>>
    /\ Output = << <<<<"y">>, <<"x">>, <<"R">>>>, <<<<"x">>, <<"x">>, <<"R">>>> >>

\* the line of table i where title c is first seen for bridge value b
FirstSeen(i, b, c) ==
    MinOf({k \in 1..Len(TableLines(i)) :
             BridgeOf(TableLines(i)[k]) = b /\ TitleOf(TableLines(i)[k]) = c})

\* row r comes before row u in the enumeration of the combinations of b: at
\* the first table where they differ, r's title was seen first
EnumeratedBefore(r, u, b) ==
    \E i \in 1..Len(lang_files) :
        /\ \A j \in 1..(i - 1) : r[j] = u[j]
        /\ FirstSeen(i, b, r[i]) < FirstSeen(i, b, u[i])

\* C7: the rows of the output are in ascending order of the bridge value, and
\* rows of equal bridge value are in the order of the enumeration of the
\* Cartesian product: first table slowest, last fastest, the candidates of a
\* table in first-seen order.
C7_OutputOrder ==
    mpc = "done" =>
        \A p, q \in 1..Len(Output) : p < q =>
            /\ ~StrLess(OutBridge(Output[q]), OutBridge(Output[p]))
            /\ OutBridge(Output[p]) = OutBridge(Output[q]) =>
                  EnumeratedBefore(Output[p], Output[q], OutBridge(Output[p]))

\* S was read before R in both tables and comes after it in the output
C7_Witness ==
    /\ mpc = "done"
    /\ lang_files = <<Str_ja, Str_en>>
    /\ TableLines(1) = <<Row_xS, Row_xR>>
    /\ TableLines(2) = <<Row_xS, Row_yR>>
    /\ all_data[1][1] = <<"S">>
    /\ Output = << <<<<"x">>, <<"y">>, <<"R">>>>, <<<<"x">>, <<"x">>, <<"S">>>> >>

SomeMissing == \E i \in 1..Len(lang_files) : ~disk[lang_files[i]].exists

Present == {i \in 1..Len(lang_files) : disk[lang_files[i]].exists}

\* C5: when the table of one language is missing and those of the others are
\* there, the merged output is the inner join over the tables that are there:
\* a bridge value is in the output if and only if every table that is present
\* has a candidate for it.
C5_MissingSkipped ==
    (mpc = "done" /\ SomeMissing /\ Present # {}) =>
        OutputBridges = {b \in BridgeValues : \A i \in Present : Candidates(i, b) # {}}

=============================================================================
